---- MODULE Spec2Model ----
(***************************************************************************)
(* Solar Resource Analyzer (streamlit_app.py): the two provider handlers,  *)
(* the calculator, the chart builders and the Streamlit script main().     *)
(*                                                                         *)
(* Numbers.  Coordinates are integers in units of 0.0001 degree (the step  *)
(* of the number_input widgets), so 37.7749 is 377749.  Provider values    *)
(* are integers (tenths of the provider's unit).  Efficiency is a          *)
(* percentage, so calculate_energy_production yields hundredths.           *)
(*                                                                         *)
(* Python values.  A JSON value is a tagged record: Obj(f) a dict, Arr(s)  *)
(* a list, Num(n), Str(s), Null.  A call's outcome is Ok(v) (it returned   *)
(* v) or Raise(e, m) (exception e with str(e) = m left the call).          *)
(***************************************************************************)
EXTENDS Integers, Sequences, FiniteSets, TLC

VARIABLES
    \* widget values, as main() reads them on each script run
    api_choice, nrel_key, google_key, location_method, lat_input, lon_input,
    address, area, accuracy,
    \* st.session_state
    nrel_data, google_data, api_validated,
    \* the last script run: the button pressed, the locals latitude and
    \* longitude, the outbound requests made, what was rendered, and the
    \* exception that ended the run (or NoExc)
    button, latitude, longitude, net, ui, crashed,
    \* a direct call of a handler or calculator function, and its outcome
    call, ret

vars == <<api_choice, nrel_key, google_key, location_method, lat_input,
          lon_input, address, area, accuracy, nrel_data, google_data,
          api_validated, button, latitude, longitude, net, ui, crashed,
          call, ret>>

widgets == <<api_choice, nrel_key, google_key, location_method, lat_input,
             lon_input, address, area, accuracy>>

session == <<nrel_data, google_data, api_validated>>

lastrun == <<button, latitude, longitude, net, ui, crashed>>

(***************************************************************************)
(* Bounds of the model.                                                    *)
(***************************************************************************)
\* largest length of the Google payload's monthlyFlux array
MaxFluxLen == 13
\* provider values are Base + month for Base in 1..MaxBase
MaxBase == 2
\* calculator inputs
MaxIrradiance == 4
MaxArea == 6

(***************************************************************************)
(* Python and JSON values.                                                 *)
(***************************************************************************)
EmptyMap == [k \in {} |-> 0]

Obj(f) == [t |-> "obj", f |-> f]

Arr(s) == [t |-> "arr", s |-> s]

Num(n) == [t |-> "num", n |-> n]

Str(s) == [t |-> "str", s |-> s]

Null == [t |-> "null"]

\* marks a key the payload does not carry (not a JSON value)
Absent == [t |-> "absent"]

Field(k, v) == IF v = Absent THEN EmptyMap ELSE (k :> v)

EmptyDict == Obj(EmptyMap)

EmptyList == Arr(<<>>)

\* Python's None in session_state and as a return value
None == [none |-> TRUE]

IsDict(v) == v.t = "obj"

IsNum(v) == v.t = "num"

\* d.get(k, default) on a dict d
Get(d, k, default) == IF k \in DOMAIN d.f THEN d.f[k] ELSE default

TypeName(v) ==
    CASE v.t = "obj" -> "dict"
      [] v.t = "arr" -> "list"
      [] v.t = "str" -> "str"
      [] v.t = "num" -> "int"
      [] v.t = "null" -> "NoneType"

Ok(v) == [raised |-> FALSE, value |-> v]

Raise(e, m) == [raised |-> TRUE, exc |-> e, msg |-> m]

NoExc == [raised |-> FALSE]

\* v.get(...) on a value that is no dict
NoGet(v) ==
    Raise("AttributeError", "'" \o TypeName(v) \o "' object has no attribute 'get'")

\* the first exception of a sequence of outcomes evaluated in order
FirstRaised(outs) ==
    IF \E i \in 1..Len(outs) : outs[i].raised
    THEN outs[CHOOSE i \in 1..Len(outs) :
                 /\ outs[i].raised
                 /\ \A j \in 1..(i - 1) : ~outs[j].raised]
    ELSE NoExc

RECURSIVE SumSeq(_)
SumSeq(s) == IF s = <<>> THEN 0 ELSE s[1] + SumSeq(Tail(s))

(***************************************************************************)
(* The network: what the provider answers to one requests.get.             *)
(***************************************************************************)
\* requests.get raised (requests.exceptions.*)
NetFail(e, m) == [kind |-> "exception", exc |-> e, msg |-> m]

Http(status, body) == [kind |-> "http", status |-> status, body |-> body]

\* a body response.json() cannot parse
Unparsable == [parsable |-> FALSE]

Json(d) == [parsable |-> TRUE, data |-> d]

TransportFailures ==
    { NetFail("Timeout", "Read timed out."),
      NetFail("ConnectionError", "Failed to establish a new connection") }

RequestExceptions == {"Timeout", "ConnectionError"}

ErrorStatuses == {401, 403, 404, 429, 500}

\* the requests made, each with the provider's answer to it
Exchanges(reqs, resp) == [i \in 1..Len(reqs) |-> [req |-> reqs[i], resp |-> resp]]

\* response.json()
ResponseJson(resp) ==
    IF resp.body.parsable
    THEN Ok(resp.body.data)
    ELSE Raise("JSONDecodeError", "Expecting value: line 1 column 1 (char 0)")

(***************************************************************************)
(* NRELApiHandler                                                          *)
(***************************************************************************)
NRELMonths ==
    <<"jan", "feb", "mar", "apr", "may", "jun",
      "jul", "aug", "sep", "oct", "nov", "dec">>

\* str.capitalize() of the month keys
Capitalize(m) ==
    CASE m = "jan" -> "Jan" [] m = "feb" -> "Feb" [] m = "mar" -> "Mar"
      [] m = "apr" -> "Apr" [] m = "may" -> "May" [] m = "jun" -> "Jun"
      [] m = "jul" -> "Jul" [] m = "aug" -> "Aug" [] m = "sep" -> "Sep"
      [] m = "oct" -> "Oct" [] m = "nov" -> "Nov" [] m = "dec" -> "Dec"

NRELRequest(api_key, lat, lon, acc) ==
    [provider |-> "NREL", endpoint |-> "solar_resource/v1.json",
     api_key |-> api_key, lat |-> lat, lon |-> lon,
     attributes |-> "dni,dhi,ghi",
     names |-> IF acc = "high" THEN "tmy-2021" ELSE "tmy-2020",
     interval |-> IF acc = "high" THEN "60" ELSE "120",
     utc |-> "false", timeout |-> 10]

NRELProbe(api_key) ==
    [provider |-> "NREL", endpoint |-> "solar_resource/v1.json",
     api_key |-> api_key, lat |-> 400000, lon |-> -1050000, timeout |-> 5]

\* the bare except of validate_api_key, and "except Exception" of
\* fetch_solar_data: every exception the body can raise is caught
ExceptAll(exc) == TRUE

NREL_validate_api_key(api_key, resp) ==
    IF resp.kind = "exception"
    THEN IF ExceptAll(resp.exc) THEN Ok(FALSE) ELSE Raise(resp.exc, resp.msg)
    ELSE Ok(resp.status = 200)

\* avg_x.get('monthly', {}).get(month, 0)
NRELMonthlyValue(avg, month) ==
    IF ~IsDict(avg) THEN NoGet(avg)
    ELSE LET m == Get(avg, "monthly", EmptyDict)
         IN  IF ~IsDict(m) THEN NoGet(m) ELSE Ok(Get(m, month, Num(0)))

\* one iteration of the loop over enumerate(months, 1)
NRELMonthEntry(i, avg_ghi, avg_dni, avg_dhi) ==
    LET month == NRELMonths[i]
        ghi == NRELMonthlyValue(avg_ghi, month)
        dni == NRELMonthlyValue(avg_dni, month)
        dhi == NRELMonthlyValue(avg_dhi, month)
        exc == FirstRaised(<<ghi, dni, dhi>>)
    IN  IF exc.raised THEN exc
        ELSE Ok([month |-> Capitalize(month), month_num |-> i,
                 ghi |-> ghi.value, dni |-> dni.value, dhi |-> dhi.value])

\* the body of the "if response.status_code == 200" branch
NRELNormalize(data, lat, lon, acc, now) ==
    IF ~IsDict(data) THEN NoGet(data)
    ELSE LET outputs == Get(data, "outputs", EmptyDict)
         IN  IF ~IsDict(outputs) THEN NoGet(outputs)
             ELSE LET avg_dni == Get(outputs, "avg_dni", EmptyDict)
                      avg_ghi == Get(outputs, "avg_ghi", EmptyDict)
                      avg_dhi == Get(outputs, "avg_dhi", EmptyDict)
                      entries == [i \in 1..Len(NRELMonths) |->
                                    NRELMonthEntry(i, avg_ghi, avg_dni, avg_dhi)]
                      exc == FirstRaised(entries)
                  IN  IF exc.raised THEN exc
                      ELSE Ok([success |-> TRUE,
                               annual |-> [ghi |-> Get(avg_ghi, "annual", Num(0)),
                                           dni |-> Get(avg_dni, "annual", Num(0)),
                                           dhi |-> Get(avg_dhi, "annual", Num(0))],
                               monthly |-> [i \in 1..Len(NRELMonths) |-> entries[i].value],
                               location |-> [lat |-> lat, lon |-> lon],
                               metadata |-> [source |-> "NREL", accuracy |-> acc,
                                             timestamp |-> now]])

\* the try block of fetch_solar_data
NRELFetchTry(lat, lon, acc, resp, now) ==
    IF resp.kind = "exception" THEN Raise(resp.exc, resp.msg)
    ELSE IF resp.status = 200
         THEN LET data == ResponseJson(resp)
              IN  IF data.raised THEN data
                  ELSE NRELNormalize(data.value, lat, lon, acc, now)
         ELSE Ok([success |-> FALSE,
                  error |-> "API returned status code " \o ToString(resp.status)])

\* fetch_solar_data with "except requests.RequestException" in place of
\* "except Exception"
NREL_fetch_solar_data_ExceptRequests(lat, lon, acc, resp, now) ==
    LET body == NRELFetchTry(lat, lon, acc, resp, now)
    IN  IF body.raised /\ body.exc \in RequestExceptions
        THEN Ok([success |-> FALSE, error |-> body.msg])
        ELSE body

NREL_fetch_solar_data(lat, lon, acc, resp, now) ==
    LET body == NRELFetchTry(lat, lon, acc, resp, now)
    IN  IF body.raised /\ ExceptAll(body.exc)
        THEN Ok([success |-> FALSE, error |-> body.msg])
        ELSE body

(***************************************************************************)
(* GoogleSolarApiHandler                                                   *)
(***************************************************************************)
GoogleMonths ==
    <<"Jan", "Feb", "Mar", "Apr", "May", "Jun",
      "Jul", "Aug", "Sep", "Oct", "Nov", "Dec">>

\* quality_map.get(accuracy, 'MEDIUM')
GoogleQuality(acc) ==
    CASE acc = "low" -> "LOW"
      [] acc = "medium" -> "MEDIUM"
      [] acc = "high" -> "HIGH"
      [] OTHER -> "MEDIUM"

GoogleRequest(api_key, lat, lon, acc) ==
    [provider |-> "Google", endpoint |-> "buildingInsights:findClosest",
     api_key |-> api_key, lat |-> lat, lon |-> lon,
     requiredQuality |-> GoogleQuality(acc), timeout |-> 10]

GoogleProbe(api_key) ==
    [provider |-> "Google", endpoint |-> "buildingInsights:findClosest",
     api_key |-> api_key, lat |-> 374419, lon |-> -1221419,
     requiredQuality |-> "LOW", timeout |-> 5]

\* validate_api_key without its try/except
Google_validate_api_key_NoExcept(api_key, resp) ==
    IF resp.kind = "exception"
    THEN Raise(resp.exc, resp.msg)
    ELSE Ok(resp.status \in {200, 403})

Google_validate_api_key(api_key, resp) ==
    IF resp.kind = "exception"
    THEN IF ExceptAll(resp.exc) THEN Ok(FALSE) ELSE Raise(resp.exc, resp.msg)
    ELSE Ok(resp.status \in {200, 403})

\* len(monthly_flux); the payloads drawn carry a list, null or a number here
PyLen(v) ==
    IF v.t = "arr" THEN Ok(Len(v.s))
    ELSE Raise("TypeError", "object of type '" \o TypeName(v) \o "' has no len()")

\* the loop body with 'month_num': i in place of i + 1
GoogleFluxEntry_ZeroBased(i, monthly_flux) ==
    LET flux == monthly_flux.s[i + 1]
    IN  IF ~IsDict(flux) THEN NoGet(flux)
        ELSE Ok([month |-> GoogleMonths[i + 1], month_num |-> i,
                 flux |-> Get(flux, "flux", Num(0)),
                 daylight_hours |-> Get(flux, "daylightHours", Num(0))])

\* the body of "if i < len(monthly_flux)" for the 0-based index i
GoogleFluxEntry(i, monthly_flux) ==
    LET flux == monthly_flux.s[i + 1]
    IN  IF ~IsDict(flux) THEN NoGet(flux)
        ELSE Ok([month |-> GoogleMonths[i + 1], month_num |-> i + 1,
                 flux |-> Get(flux, "flux", Num(0)),
                 daylight_hours |-> Get(flux, "daylightHours", Num(0))])

\* the loop with an else branch appending a zero entry for a month the
\* array does not reach
GoogleMonthlyData_Padded(monthly_flux) ==
    LET n == PyLen(monthly_flux)
    IN  IF n.raised THEN n
        ELSE LET entries == [j \in 1..Len(GoogleMonths) |->
                               IF j <= n.value
                               THEN GoogleFluxEntry(j - 1, monthly_flux)
                               ELSE Ok([month |-> GoogleMonths[j], month_num |-> j,
                                        flux |-> Num(0), daylight_hours |-> Num(0)])]
                 exc == FirstRaised(entries)
             IN  IF exc.raised THEN exc
                 ELSE Ok([j \in 1..Len(GoogleMonths) |-> entries[j].value])

\* the loop "for i, month_name in enumerate(months)": monthly_data, or the
\* exception that ended the loop
GoogleMonthlyData(monthly_flux) ==
    LET n == PyLen(monthly_flux)
    IN  IF n.raised THEN n
        ELSE LET count == IF n.value < Len(GoogleMonths) THEN n.value
                          ELSE Len(GoogleMonths)
                 entries == [j \in 1..count |-> GoogleFluxEntry(j - 1, monthly_flux)]
                 exc == FirstRaised(entries)
             IN  IF exc.raised THEN exc
                 ELSE Ok([j \in 1..count |-> entries[j].value])

\* sum(m.get('flux', 0) for m in monthly_data)
GoogleAnnualFlux(monthly_data) ==
    LET bad == {j \in 1..Len(monthly_data) : ~IsNum(monthly_data[j].flux)}
    IN  IF bad # {}
        THEN LET j == CHOOSE k \in bad : \A l \in bad : k <= l
             IN  Raise("TypeError",
                       "unsupported operand type(s) for +: 'int' and '"
                           \o TypeName(monthly_data[j].flux) \o "'")
        ELSE Ok(Num(SumSeq([j \in 1..Len(monthly_data) |-> monthly_data[j].flux.n])))

\* the body of the "if response.status_code == 200" branch
GoogleNormalize(data, lat, lon, acc, now) ==
    IF ~IsDict(data) THEN NoGet(data)
    ELSE LET solar_potential == Get(data, "solarPotential", EmptyDict)
         IN  IF ~IsDict(solar_potential) THEN NoGet(solar_potential)
             ELSE LET monthly_flux == Get(solar_potential, "monthlyFlux", EmptyList)
                      monthly_data == GoogleMonthlyData(monthly_flux)
                  IN  IF monthly_data.raised THEN monthly_data
                      ELSE LET annual_flux == GoogleAnnualFlux(monthly_data.value)
                           IN  IF annual_flux.raised THEN annual_flux
                               ELSE Ok([success |-> TRUE,
                                        annual |->
                                          [flux |-> annual_flux.value,
                                           max_array_panels |->
                                             Get(solar_potential, "maxArrayPanelsCount", Num(0)),
                                           max_array_area |->
                                             Get(solar_potential, "maxArrayAreaMeters2", Num(0)),
                                           max_sunshine_hours |->
                                             Get(solar_potential, "maxSunshineHoursPerYear", Num(0))],
                                        monthly |-> monthly_data.value,
                                        location |-> [lat |-> lat, lon |-> lon,
                                                      center |-> Get(data, "center", EmptyDict)],
                                        metadata |->
                                          [source |-> "Google Solar", accuracy |-> acc,
                                           timestamp |-> now,
                                           data_layers |->
                                             Get(solar_potential, "dataLayers", EmptyList)],
                                        roof_segments |->
                                          Get(solar_potential, "roofSegmentStats", EmptyList)])

\* error_msg of the else branch
GoogleErrorMsg(status) ==
    IF status = 404
    THEN "Location not found or no solar data available for this location"
    ELSE IF status = 403
         THEN "API key invalid or quota exceeded"
         ELSE "API returned status code " \o ToString(status)

\* the try block of fetch_solar_data
GoogleFetchTry(lat, lon, acc, resp, now) ==
    IF resp.kind = "exception" THEN Raise(resp.exc, resp.msg)
    ELSE IF resp.status = 200
         THEN LET data == ResponseJson(resp)
              IN  IF data.raised THEN data
                  ELSE GoogleNormalize(data.value, lat, lon, acc, now)
         ELSE Ok([success |-> FALSE, error |-> GoogleErrorMsg(resp.status)])

Google_fetch_solar_data(lat, lon, acc, resp, now) ==
    LET body == GoogleFetchTry(lat, lon, acc, resp, now)
    IN  IF body.raised /\ ExceptAll(body.exc)
        THEN Ok([success |-> FALSE, error |-> body.msg])
        ELSE body

(***************************************************************************)
(* SolarCalculator                                                         *)
(***************************************************************************)
\* efficiency: float = 0.20, as a percentage
DefaultEfficiency == 20

\* watts_per_sqm: float = 200
DefaultWattsPerSqm == 200

\* irradiance * area * efficiency; with efficiency a percentage the value
\* is in hundredths of the unit of irradiance * area
calculate_energy_production(irradiance, a, efficiency) ==
    Ok(irradiance * a * efficiency)

calculate_peak_sun_hours(daily_irradiance) == Ok(daily_irradiance)

\* (area * watts_per_sqm) / 1000, kept as the fraction num / den
estimate_system_size(a, watts_per_sqm) ==
    Ok([num |-> a * watts_per_sqm, den |-> 1000])

(***************************************************************************)
(* geocode_address                                                         *)
(***************************************************************************)
\* float(s) of the coordinate strings the lookup service sends
ParseFloat(v) ==
    IF v.t = "num" THEN Ok(v.n)
    ELSE IF v.t # "str"
         THEN Raise("TypeError", "float() argument must be a string or a real number")
         ELSE CASE v.s = "40.0000" -> Ok(400000)
                [] v.s = "-105.0000" -> Ok(-1050000)
                [] v.s = "95.0000" -> Ok(950000)
                [] OTHER -> Raise("ValueError", "could not convert string to float")

GeocodeRequest(addr) ==
    [provider |-> "Nominatim", endpoint |-> "search", q |-> addr, format |-> "json",
     limit |-> 1, timeout |-> 5]

\* data[0]['lat'], data[0]['lon'] of a non-empty list
GeocodeFirst(data) ==
    LET first == data.s[1]
    IN  IF ~IsDict(first)
        THEN Raise("TypeError", "'" \o TypeName(first) \o "' object is not subscriptable")
        ELSE IF "lat" \notin DOMAIN first.f THEN Raise("KeyError", "'lat'")
        ELSE LET lat == ParseFloat(first.f["lat"])
             IN  IF lat.raised THEN lat
                 ELSE IF "lon" \notin DOMAIN first.f THEN Raise("KeyError", "'lon'")
                 ELSE LET lon == ParseFloat(first.f["lon"])
                      IN  IF lon.raised THEN lon
                          ELSE Ok([lat |-> lat.value, lon |-> lon.value])

\* the answers drawn carry a list or null as the body's top level
geocode_address(addr, resp) ==
    LET try == IF resp.kind = "exception" THEN Raise(resp.exc, resp.msg)
               ELSE IF resp.status = 200
                    THEN LET data == ResponseJson(resp)
                         IN  IF data.raised THEN data
                             ELSE IF data.value.t = "arr" /\ Len(data.value.s) > 0
                                  THEN GeocodeFirst(data.value)
                                  ELSE Ok(None)
                    ELSE Ok(None)
    IN  IF try.raised /\ ExceptAll(try.exc) THEN Ok(None) ELSE try

(***************************************************************************)
(* Charts and metrics                                                      *)
(***************************************************************************)
\* df[column] of pd.DataFrame(rows): a frame built from an empty list has
\* no columns
Column(rows, name) ==
    IF Len(rows) = 0 THEN Raise("KeyError", "'" \o name \o "'")
    ELSE Ok([j \in 1..Len(rows) |-> rows[j][name]])

Trace(name, x, y) == [name |-> name, x |-> x, y |-> y]

create_monthly_chart(monthly_data, api_type) ==
    LET x == Column(monthly_data, "month")
    IN  IF x.raised THEN x
        ELSE IF api_type = "NREL"
             THEN Ok(<<Trace("Global Horizontal (GHI)", x.value,
                             Column(monthly_data, "ghi").value),
                       Trace("Direct Normal (DNI)", x.value,
                             Column(monthly_data, "dni").value),
                       Trace("Diffuse Horizontal (DHI)", x.value,
                             Column(monthly_data, "dhi").value)>>)
             ELSE Ok(<<Trace("Solar Flux", x.value, Column(monthly_data, "flux").value),
                       Trace("Daylight Hours", x.value,
                             Column(monthly_data, "daylight_hours").value)>>)

\* google_df['flux'] / 30, kept as the fraction num / den
DailyFlux(flux) ==
    [j \in 1..Len(flux) |-> [num |-> flux[j], den |-> 30]]

Succeeded(data) == data # None /\ data.success

create_comparison_chart(nd, gd) ==
    LET nrel_x == Column(nd.monthly, "month")
        nrel_y == Column(nd.monthly, "ghi")
        nrel == IF ~Succeeded(nd) THEN Ok(<<>>)
                ELSE IF nrel_x.raised THEN nrel_x
                ELSE IF nrel_y.raised THEN nrel_y
                ELSE Ok(<<Trace("NREL GHI", nrel_x.value, nrel_y.value)>>)
        google_flux == Column(gd.monthly, "flux")
        google_x == Column(gd.monthly, "month")
        google == IF ~Succeeded(gd) THEN Ok(<<>>)
                  ELSE IF google_flux.raised THEN google_flux
                  ELSE IF google_x.raised THEN google_x
                  ELSE Ok(<<Trace("Google Solar (Daily Avg)", google_x.value,
                                  DailyFlux(google_flux.value))>>)
    IN  IF nrel.raised THEN nrel
        ELSE IF google.raised THEN google
        ELSE Ok(nrel.value \o google.value)

\* f"{v:.2f}" and the like, on a value a payload supplied
FormatFloat(v) ==
    IF IsNum(v) THEN Ok(v.n)
    ELSE IF v.t = "str"
         THEN Raise("ValueError", "Unknown format code 'f' for object of type 'str'")
         ELSE Raise("TypeError", "unsupported format string passed to "
                                     \o TypeName(v) \o ".__format__")

\* the values display_metrics hands to st.metric, or the exception raised
display_metrics(data, a, api_type) ==
    IF api_type = "NREL"
    THEN LET annual_ghi == data.annual.ghi
             annual_dni == data.annual.dni
         IN  IF ~IsNum(annual_ghi)
             THEN IF annual_ghi.t \in {"str", "arr"}
                  THEN Raise("TypeError",
                             "can't multiply sequence by non-int of type 'float'")
                  ELSE Raise("TypeError", "unsupported operand type(s) for *: '"
                                              \o TypeName(annual_ghi) \o "' and 'int'")
             ELSE LET energy_production ==
                          calculate_energy_production(annual_ghi.n * 365, a,
                                                      DefaultEfficiency)
                      system_size == estimate_system_size(a, DefaultWattsPerSqm)
                      dni == FormatFloat(annual_dni)
                  IN  IF energy_production.raised THEN energy_production
                      ELSE IF system_size.raised THEN system_size
                      ELSE IF dni.raised THEN dni
                      ELSE Ok([annual_ghi |-> annual_ghi.n, annual_dni |-> dni.value,
                               energy_production |-> energy_production.value,
                               system_size |-> system_size.value])
    ELSE LET annual_flux == FormatFloat(data.annual.flux)
             max_area == FormatFloat(data.annual.max_array_area)
             sunshine_hours == FormatFloat(data.annual.max_sunshine_hours)
             exc == FirstRaised(<<annual_flux, max_area, sunshine_hours>>)
         IN  IF exc.raised THEN exc
             ELSE Ok([annual_flux |-> annual_flux.value,
                      max_panels |-> data.annual.max_array_panels,
                      max_area |-> max_area.value,
                      sunshine_hours |-> sunshine_hours.value])

(***************************************************************************)
(* Provider payloads: the bodies a provider may send with status 200.      *)
(***************************************************************************)
Bases == 1..MaxBase

Times == {1}

\* avg_x['monthly'] carrying the months whose numbers are in S
NRELMonthly(S, base) ==
    Obj([m \in {NRELMonths[i] : i \in S} |->
           Num(base + (CHOOSE i \in S : NRELMonths[i] = m))])

NRELAvg(annual, monthly) == Obj(Field("annual", annual) @@ Field("monthly", monthly))

NRELMonthlyChoices(base) ==
    {Absent, Null, NRELMonthly(1..12, base), NRELMonthly(1..6, base),
     NRELMonthly({}, base)}

NRELGhiChoices(base) ==
    {Absent, Str("no data")}
        \cup {NRELAvg(a, m) : a \in {Absent, Num(base), Str("no data")},
                              m \in NRELMonthlyChoices(base)}

NRELOtherChoices(base) ==
    {Absent, Str("no data"), NRELAvg(Absent, Absent),
     NRELAvg(Num(base + 1), NRELMonthly(1..12, base + 1))}

NRELPayloads ==
    {EmptyList, Null, EmptyDict, Obj("outputs" :> Str("no data")), Obj("outputs" :> Null)}
        \cup {Obj("outputs" :> Obj(Field("avg_ghi", g) @@ Field("avg_dni", d)
                                      @@ Field("avg_dhi", h))) :
                 <<g, d, h>> \in UNION {NRELGhiChoices(b) \X NRELOtherChoices(b)
                                           \X NRELOtherChoices(b) : b \in Bases}}

FluxDefects == {"none", "noflux", "nondict", "strflux"}

\* the position of the defective element of a monthlyFlux array of length k
DefectAt(k) == (k + 1) \div 2

GoogleFluxElem(i, defect, base) ==
    CASE defect = "none" ->
             Obj(("flux" :> Num(base + i)) @@ ("daylightHours" :> Num(8 + i)))
      [] defect = "noflux" -> Obj("daylightHours" :> Num(8 + i))
      [] defect = "nondict" -> Num(base + i)
      [] defect = "strflux" ->
             Obj(("flux" :> Str("n/a")) @@ ("daylightHours" :> Num(8 + i)))

GoogleFluxArray(k, defect, base) ==
    Arr([i \in 1..k |->
           GoogleFluxElem(i, IF i = DefectAt(k) THEN defect ELSE "none", base)])

GoogleFluxChoices(base) ==
    {Absent, Null, Num(base)}
        \cup {GoogleFluxArray(k, df, base) : k \in 1..MaxFluxLen, df \in FluxDefects}
        \cup {GoogleFluxArray(0, "none", base)}

GoogleTotals(present, base) ==
    IF present
    THEN ("maxArrayPanelsCount" :> Num(10 * base))
             @@ ("maxArrayAreaMeters2" :> Num(20 * base))
             @@ ("maxSunshineHoursPerYear" :> Num(1500 + base))
    ELSE EmptyMap

GoogleExtras(present) ==
    IF present
    THEN ("dataLayers" :> Arr(<<Str("dsm"), Str("rgb")>>))
             @@ ("roofSegmentStats" :> Arr(<<Obj("pitchDegrees" :> Num(15))>>))
    ELSE EmptyMap

GoogleCenter(present) ==
    IF present
    THEN "center" :> Obj(("latitude" :> Num(374419)) @@ ("longitude" :> Num(-1221419)))
    ELSE EmptyMap

GooglePayloads ==
    {EmptyList, Null, EmptyDict, Obj("solarPotential" :> Null)}
        \cup {Obj(GoogleCenter(x)
                    @@ ("solarPotential" :>
                           Obj(Field("monthlyFlux", mf) @@ GoogleTotals(tot, b)
                                   @@ GoogleExtras(x)))) :
                 <<b, mf, tot, x>> \in UNION {{b} \X GoogleFluxChoices(b)
                                                 \X BOOLEAN \X BOOLEAN : b \in Bases}}

ErrorResponses ==
    TransportFailures \cup {Http(s, Unparsable) : s \in ErrorStatuses}

NRELResponses ==
    ErrorResponses \cup {Http(200, Unparsable)}
        \cup {Http(200, Json(p)) : p \in NRELPayloads}

GoogleResponses ==
    ErrorResponses \cup {Http(200, Unparsable)}
        \cup {Http(200, Json(p)) : p \in GooglePayloads}

(***************************************************************************)
(* Direct calls of the handlers and of the calculator: the arguments are   *)
(* drawn at the start, the call is then made once.                         *)
(***************************************************************************)
LatMin == -900000

LatMax == 900000

LonMin == -1800000

LonMax == 1800000

DefaultLat == 377749

DefaultLon == -1224194

InRange(lat, lon) == lat >= LatMin /\ lat <= LatMax /\ lon >= LonMin /\ lon <= LonMax

CallCoords ==
    { <<DefaultLat, DefaultLon>>, <<LatMax, LonMax>>, <<LatMin, LonMin>>,
      <<LatMax + 1, 0>>, <<0, LonMin - 1>>, <<LatMin - 1, LonMax + 1>> }

Accuracies == {"low", "medium", "high"}

Pending == [pending |-> TRUE]

NoCall == [fn |-> "none"]

FetchCalls(fn, responses) ==
    { [fn |-> fn, api_key |-> "key-1", lat |-> c[1], lon |-> c[2], accuracy |-> a,
       resp |-> r, now |-> t] :
         <<c, a, r, t>> \in CallCoords \X Accuracies \X responses \X Times }

ValidateCalls(fn) ==
    { [fn |-> fn, api_key |-> k, resp |-> r] :
         <<k, r>> \in {"", "key-1"}
                        \X (ErrorResponses \cup {Http(200, Unparsable),
                                                 Http(200, Json(EmptyDict))}) }

\* the efficiency argument of a call: left out, or given as a percentage
Efficiencies ==
    {[given |-> FALSE], [given |-> TRUE, value |-> 15], [given |-> TRUE, value |-> 100]}

\* "efficiency: float = 0.20": the parameter's value in the call
EfficiencyOf(e) == IF e.given THEN e.value ELSE DefaultEfficiency

Irradiances == (-2)..MaxIrradiance

Areas == (-5)..MaxArea

CalcCalls ==
    { [fn |-> f, irradiance |-> i, area |-> a, efficiency |-> e] :
         <<f, i, a, e>> \in {"energy", "system_size"} \X Irradiances \X Areas
                               \X Efficiencies }

Calls ==
    FetchCalls("nrel_fetch", NRELResponses)
        \cup FetchCalls("google_fetch", GoogleResponses)
        \cup ValidateCalls("nrel_validate") \cup ValidateCalls("google_validate")
        \cup CalcCalls

\* fetch_solar_data probing the key before it fetches
NRELFetchRequests_WithProbe(api_key, lat, lon, acc) ==
    <<NRELProbe(api_key), NRELRequest(api_key, lat, lon, acc)>>

\* the requests.get calls of NRELApiHandler.fetch_solar_data
NRELFetchRequests(api_key, lat, lon, acc) == <<NRELRequest(api_key, lat, lon, acc)>>

\* the requests.get calls of GoogleSolarApiHandler.fetch_solar_data
GoogleFetchRequests(api_key, lat, lon, acc) == <<GoogleRequest(api_key, lat, lon, acc)>>

\* the state main() starts from: widget defaults and the session state of
\* the first script run
InitApp ==
    /\ api_choice = "NREL Solar"
    /\ nrel_key = ""
    /\ google_key = ""
    /\ location_method = "Coordinates"
    /\ lat_input = DefaultLat
    /\ lon_input = DefaultLon
    /\ address = ""
    /\ area = 50
    /\ accuracy = "medium"
    /\ nrel_data = None
    /\ google_data = None
    /\ api_validated = [nrel |-> FALSE, google |-> FALSE]
    /\ button = "none"
    /\ latitude = DefaultLat
    /\ longitude = DefaultLon
    /\ net = <<>>
    /\ ui = {}
    /\ crashed = NoExc

InitApi ==
    /\ InitApp
    /\ call \in Calls
    /\ ret = Pending

CallNRELFetch ==
    /\ call.fn = "nrel_fetch"
    /\ ret = Pending
    /\ net' = Exchanges(NRELFetchRequests(call.api_key, call.lat, call.lon,
                                           call.accuracy), call.resp)
    /\ ret' = NREL_fetch_solar_data(call.lat, call.lon, call.accuracy, call.resp, call.now)
    /\ UNCHANGED <<widgets, session, button, latitude, longitude, ui, crashed, call>>

CallGoogleFetch ==
    /\ call.fn = "google_fetch"
    /\ ret = Pending
    /\ net' = Exchanges(GoogleFetchRequests(call.api_key, call.lat, call.lon,
                                             call.accuracy), call.resp)
    /\ ret' = Google_fetch_solar_data(call.lat, call.lon, call.accuracy, call.resp, call.now)
    /\ UNCHANGED <<widgets, session, button, latitude, longitude, ui, crashed, call>>

CallNRELValidate ==
    /\ call.fn = "nrel_validate"
    /\ ret = Pending
    /\ net' = Exchanges(<<NRELProbe(call.api_key)>>, call.resp)
    /\ ret' = NREL_validate_api_key(call.api_key, call.resp)
    /\ UNCHANGED <<widgets, session, button, latitude, longitude, ui, crashed, call>>

CallGoogleValidate ==
    /\ call.fn = "google_validate"
    /\ ret = Pending
    /\ net' = Exchanges(<<GoogleProbe(call.api_key)>>, call.resp)
    /\ ret' = Google_validate_api_key(call.api_key, call.resp)
    /\ UNCHANGED <<widgets, session, button, latitude, longitude, ui, crashed, call>>

CallEnergy ==
    /\ call.fn = "energy"
    /\ ret = Pending
    /\ ret' = calculate_energy_production(call.irradiance, call.area,
                                          EfficiencyOf(call.efficiency))
    /\ UNCHANGED <<widgets, session, lastrun, call>>

CallSystemSize ==
    /\ call.fn = "system_size"
    /\ ret = Pending
    /\ ret' = estimate_system_size(call.area, DefaultWattsPerSqm)
    /\ UNCHANGED <<widgets, session, lastrun, call>>

NextApi ==
    \/ CallNRELFetch
    \/ CallGoogleFetch
    \/ CallNRELValidate
    \/ CallGoogleValidate
    \/ CallEnergy
    \/ CallSystemSize

SpecApi == InitApi /\ [][NextApi]_vars

(***************************************************************************)
(* main(): one script run.  Streamlit runs the script from the top on each *)
(* widget change and on each button press; a button is True only in the    *)
(* run its press starts.                                                   *)
(***************************************************************************)
Msg(k) == [w |-> k]

Step(u, e) == [ui |-> u, exc |-> e]

\* rendering steps in order: what is on the page when the first exception
\* ends the run
RECURSIVE RunSteps(_)
RunSteps(steps) ==
    IF steps = <<>> THEN Step({}, NoExc)
    ELSE IF steps[1].exc.raised THEN steps[1]
    ELSE LET rest == RunSteps(Tail(steps))
         IN  Step(steps[1].ui \cup rest.ui, rest.exc)


\* the sidebar's two "Validate ... Key" buttons
ValidatePhase(nkey, gkey, btn, io, validated) ==
    IF btn = "validate_nrel" /\ nkey # ""
    THEN LET v == NREL_validate_api_key(nkey, io.nrel)
         IN  [net |-> Exchanges(<<NRELProbe(nkey)>>, io.nrel),
              exc |-> IF v.raised THEN v ELSE NoExc,
              validated |-> IF v.raised THEN validated
                            ELSE [validated EXCEPT !.nrel = v.value],
              ui |-> IF v.raised THEN {}
                     ELSE {Msg(IF v.value THEN "nrel_key_valid" ELSE "nrel_key_invalid")}]
    ELSE IF btn = "validate_google" /\ gkey # ""
    THEN LET v == Google_validate_api_key(gkey, io.google)
         IN  [net |-> Exchanges(<<GoogleProbe(gkey)>>, io.google),
              exc |-> IF v.raised THEN v ELSE NoExc,
              validated |-> IF v.raised THEN validated
                            ELSE [validated EXCEPT !.google = v.value],
              ui |-> IF v.raised THEN {}
                     ELSE {Msg(IF v.value THEN "google_key_valid"
                               ELSE "google_key_invalid")}]
    ELSE [net |-> <<>>, exc |-> NoExc, validated |-> validated, ui |-> {}]

\* the sidebar's location section: the locals latitude and longitude
LocationPhase(method, lat_in, lon_in, addr, btn, io) ==
    IF method = "Coordinates"
    THEN [latitude |-> lat_in, longitude |-> lon_in, net |-> <<>>, ui |-> {},
          exc |-> NoExc]
    ELSE IF btn = "geocode"
    THEN IF addr # ""
         THEN LET coords == geocode_address(addr, io.geo)
                  exchange == Exchanges(<<GeocodeRequest(addr)>>, io.geo)
              IN  IF coords.raised
                  THEN [latitude |-> DefaultLat, longitude |-> DefaultLon,
                        net |-> exchange, ui |-> {}, exc |-> coords]
                  ELSE IF coords.value # None
                  THEN [latitude |-> coords.value.lat, longitude |-> coords.value.lon,
                        net |-> exchange, ui |-> {Msg("geocode_found")}, exc |-> NoExc]
                  ELSE [latitude |-> DefaultLat, longitude |-> DefaultLon,
                        net |-> exchange, ui |-> {Msg("geocode_failed")}, exc |-> NoExc]
         ELSE [latitude |-> DefaultLat, longitude |-> DefaultLon, net |-> <<>>,
               ui |-> {Msg("address_missing")}, exc |-> NoExc]
    ELSE [latitude |-> DefaultLat, longitude |-> DefaultLon, net |-> <<>>, ui |-> {},
          exc |-> NoExc]

\* the two fetches with the Google fetch made only after an NREL fetch
\* that succeeded
FetchInto_NRELFirst(choice, nkey, gkey, lat, lon, acc, io, nd, gd, n, g) ==
    LET doNREL == choice \in {"NREL Solar", "Compare Both"}
        doGoogle == /\ choice \in {"Google Solar", "Compare Both"}
                    /\ ~(doNREL /\ (n.raised \/ ~n.value.success))
    IN  [returned |-> FALSE,
         nrel_data |-> IF doNREL /\ ~n.raised THEN n.value ELSE nd,
         google_data |-> IF doGoogle /\ ~g.raised THEN g.value ELSE gd,
         net |-> (IF doNREL
                  THEN Exchanges(NRELFetchRequests(nkey, lat, lon, acc), io.nrel)
                  ELSE <<>>)
                 \o (IF doGoogle
                     THEN Exchanges(GoogleFetchRequests(gkey, lat, lon, acc), io.google)
                     ELSE <<>>),
         ui |-> {},
         exc |-> IF doNREL /\ n.raised THEN n
                 ELSE IF doGoogle /\ g.raised THEN g
                 ELSE NoExc]

\* "Fetch data based on selection": the two fetches into session_state,
\* where n and g are the outcomes of the handlers' fetch_solar_data; an
\* exception of the first would end the run before the second
FetchInto(choice, nkey, gkey, lat, lon, acc, io, nd, gd, n, g) ==
    LET doNREL == choice \in {"NREL Solar", "Compare Both"}
        doGoogle == /\ choice \in {"Google Solar", "Compare Both"}
                    /\ ~(doNREL /\ n.raised)
    IN  [returned |-> FALSE,
         nrel_data |-> IF doNREL /\ ~n.raised THEN n.value ELSE nd,
         google_data |-> IF doGoogle /\ ~g.raised THEN g.value ELSE gd,
         net |-> (IF doNREL
                  THEN Exchanges(NRELFetchRequests(nkey, lat, lon, acc), io.nrel)
                  ELSE <<>>)
                 \o (IF doGoogle
                     THEN Exchanges(GoogleFetchRequests(gkey, lat, lon, acc), io.google)
                     ELSE <<>>),
         ui |-> {},
         exc |-> IF doNREL /\ n.raised THEN n
                 ELSE IF doGoogle /\ g.raised THEN g
                 ELSE NoExc]

\* a run that leaves the fetch section without fetching
NoFetch(u, returned, nd, gd) ==
    [returned |-> returned, nrel_data |-> nd, google_data |-> gd,
     net |-> <<>>, ui |-> u, exc |-> NoExc]

\* the key checks clearing the session's datasets before they return
FetchPhase_ClearOnReturn(choice, nkey, gkey, lat, lon, acc, btn, io, nd, gd) ==
    IF btn # "fetch" THEN NoFetch({}, FALSE, nd, gd)
    ELSE IF choice = "NREL Solar" /\ nkey = ""
    THEN NoFetch({Msg("need_nrel_key")}, TRUE, None, None)
    ELSE IF choice = "Google Solar" /\ gkey = ""
    THEN NoFetch({Msg("need_google_key")}, TRUE, None, None)
    ELSE IF choice = "Compare Both" /\ (nkey = "" \/ gkey = "")
    THEN NoFetch({Msg("need_both_keys")}, TRUE, None, None)
    ELSE FetchInto(choice, nkey, gkey, lat, lon, acc, io, nd, gd,
                   NREL_fetch_solar_data(lat, lon, acc, io.nrel, io.now),
                   Google_fetch_solar_data(lat, lon, acc, io.google, io.now))

\* "if fetch_button:": the key checks with their early return, then the
\* fetches
FetchPhase(choice, nkey, gkey, lat, lon, acc, btn, io, nd, gd) ==
    IF btn # "fetch" THEN NoFetch({}, FALSE, nd, gd)
    ELSE IF choice = "NREL Solar" /\ nkey = ""
    THEN NoFetch({Msg("need_nrel_key")}, TRUE, nd, gd)
    ELSE IF choice = "Google Solar" /\ gkey = ""
    THEN NoFetch({Msg("need_google_key")}, TRUE, nd, gd)
    ELSE IF choice = "Compare Both" /\ (nkey = "" \/ gkey = "")
    THEN NoFetch({Msg("need_both_keys")}, TRUE, nd, gd)
    ELSE FetchInto(choice, nkey, gkey, lat, lon, acc, io, nd, gd,
                   NREL_fetch_solar_data(lat, lon, acc, io.nrel, io.now),
                   Google_fetch_solar_data(lat, lon, acc, io.google, io.now))

\* the status indicators
StatusSteps(nd, gd) ==
    <<Step(IF nd = None THEN {}
           ELSE IF nd.success THEN {Msg("nrel_status_ok")}
           ELSE {[w |-> "nrel_status_error", error |-> nd.error]}, NoExc),
      Step(IF gd = None THEN {}
           ELSE IF gd.success THEN {Msg("google_status_ok")}
           ELSE {[w |-> "google_status_error", error |-> gd.error]}, NoExc)>>

Metrics(data, a, api_type) ==
    LET m == display_metrics(data, a, api_type)
    IN  IF m.raised THEN Step({}, m)
        ELSE Step({[w |-> "metrics", api |-> api_type, values |-> m.value]}, NoExc)

\* st.plotly_chart of a figure: the page records which chart it shows
Chart(fig, kind) ==
    IF fig.raised THEN Step({}, fig)
    ELSE Step({[w |-> "chart", kind |-> kind]}, NoExc)

\* "Display data based on selection"
ViewSteps(choice, nd, gd, a) ==
    IF choice = "NREL Solar" /\ nd # None
    THEN IF nd.success
         THEN <<Metrics(nd, a, "NREL"),
                Chart(create_monthly_chart(nd.monthly, "NREL"), "nrel_monthly"),
                Step({Msg("nrel_table")}, NoExc)>>
         ELSE <<>>
    ELSE IF choice = "Google Solar" /\ gd # None
    THEN IF gd.success
         THEN <<Metrics(gd, a, "Google"),
                Chart(create_monthly_chart(gd.monthly, "Google"), "google_monthly"),
                Step(IF gd.roof_segments.t = "arr" /\ Len(gd.roof_segments.s) > 0
                     THEN {Msg("roof_segments")}
                     ELSE {}, NoExc),
                Step({Msg("google_table")}, NoExc)>>
         ELSE <<>>
    ELSE IF choice = "Compare Both"
    THEN <<IF Succeeded(nd) THEN Metrics(nd, a, "NREL")
           ELSE Step({Msg("nrel_unavailable")}, NoExc),
           IF Succeeded(gd) THEN Metrics(gd, a, "Google")
           ELSE Step({Msg("google_unavailable")}, NoExc),
           IF Succeeded(nd) /\ Succeeded(gd)
           THEN Chart(create_comparison_chart(nd, gd), "comparison")
           ELSE Step({}, NoExc)>>
    ELSE <<>>

\* the dict "report" of the combined download
Report(nd, gd, a, lat, lon, acc, now) ==
    [timestamp |-> now,
     location |-> [latitude |-> lat, longitude |-> lon],
     parameters |-> [area |-> a, accuracy |-> acc],
     nrel_data |-> nd, google_data |-> gd]

\* "Download results": the page records which download buttons it shows;
\* their contents are session_state.nrel_data, session_state.google_data
\* and Report of the run
DownloadSteps(nd, gd) ==
    <<Step(IF Succeeded(nd) THEN {[w |-> "download", file |-> "nrel"]} ELSE {}, NoExc),
      Step(IF Succeeded(gd) THEN {[w |-> "download", file |-> "google"]} ELSE {}, NoExc),
      Step(IF Succeeded(nd) \/ Succeeded(gd)
           THEN {[w |-> "download", file |-> "report"]}
           ELSE {}, NoExc)>>

\* "Display results"
Display(choice, nd, gd, a) ==
    IF nd # None \/ gd # None
    THEN RunSteps(StatusSteps(nd, gd) \o ViewSteps(choice, nd, gd, a)
                      \o DownloadSteps(nd, gd))
    ELSE Step({}, NoExc)

\* the provider answers of one script run
IO(nrel, google, geo, now) == [nrel |-> nrel, google |-> google, geo |-> geo, now |-> now]

NoResp == [kind |-> "none"]

\* what a run leaves behind, from the outcomes A, B, C, D of its sections
MainResult(A, B, C, D, btn) ==
    /\ api_validated' = A.validated
    /\ latitude' = B.latitude
    /\ longitude' = B.longitude
    /\ nrel_data' = IF A.exc.raised \/ B.exc.raised THEN nrel_data ELSE C.nrel_data
    /\ google_data' = IF A.exc.raised \/ B.exc.raised THEN google_data
                      ELSE C.google_data
    /\ net' = A.net \o B.net
                  \o (IF A.exc.raised \/ B.exc.raised THEN <<>> ELSE C.net)
    /\ ui' = A.ui \cup B.ui
                 \cup (IF A.exc.raised \/ B.exc.raised THEN {} ELSE C.ui) \cup D.ui
    /\ crashed' = FirstRaised(<<A.exc, B.exc, C.exc, D.exc>>)
    /\ button' = btn

\* one run of main() with the widget values given and button btn pressed:
\* the sidebar (validation A, location B), the fetch section C and the
\* display D, which an exception or the early return leaves out
Main(choice, nkey, gkey, method, lat_in, lon_in, addr, a, acc, btn, io) ==
    \E A \in {ValidatePhase(nkey, gkey, btn, io, api_validated)},
       B \in {LocationPhase(method, lat_in, lon_in, addr, btn, io)} :
        \E C \in {FetchPhase(choice, nkey, gkey, B.latitude, B.longitude, acc, btn, io,
                             nrel_data, google_data)} :
            \E D \in {IF A.exc.raised \/ B.exc.raised \/ C.exc.raised \/ C.returned
                      THEN Step({}, NoExc)
                      ELSE Display(choice, C.nrel_data, C.google_data, a)} :
                MainResult(A, B, C, D, btn)

(***************************************************************************)
(* The session: the user changes a widget or presses a button, and the     *)
(* script runs.                                                            *)
(***************************************************************************)
ApiChoices == {"NREL Solar", "Google Solar", "Compare Both"}

KeyInputs == {"", "key-1"}

LocationMethods == {"Coordinates", "Address"}

LatInputs == {DefaultLat, LatMax}

LonInputs == {DefaultLon}

AddressInputs == {"", "1 Main St"}

AreaInputs == {50}

AccuracyInputs == {"medium"}

ProbeResponses ==
    {NetFail("Timeout", "Read timed out."), Http(200, Unparsable), Http(403, Unparsable)}

AppNRELResponses ==
    { NetFail("Timeout", "Read timed out."),
      Http(200, Json(Obj("outputs" :>
          Obj(("avg_ghi" :> NRELAvg(Num(5), NRELMonthly(1..12, 1)))
                  @@ ("avg_dni" :> NRELAvg(Num(6), NRELMonthly(1..12, 2)))
                  @@ ("avg_dhi" :> NRELAvg(Num(2), NRELMonthly(1..12, 0))))))) }

\* the second 200 body is the shape of a buildingInsights answer, whose
\* solarPotential carries no monthlyFlux
AppGoogleResponses ==
    { Http(403, Unparsable),
      Http(200, Json(Obj(GoogleCenter(TRUE)
          @@ ("solarPotential" :>
                 Obj(("monthlyFlux" :> GoogleFluxArray(12, "none", 1))
                         @@ GoogleTotals(TRUE, 1) @@ GoogleExtras(TRUE)))))),
      Http(200, Json(Obj(GoogleCenter(TRUE)
          @@ ("solarPotential" :> Obj(GoogleTotals(TRUE, 1) @@ GoogleExtras(TRUE)))))) }

GeoResponses ==
    { NetFail("Timeout", "Read timed out."),
      Http(200, Json(EmptyList)),
      Http(200, Json(Arr(<<Obj(("lat" :> Str("40.0000")) @@ ("lon" :> Str("-105.0000")))>>))) }

Init ==
    /\ InitApp
    /\ call = NoCall
    /\ ret = Pending

\* the script run that follows the change or press, on the new widget values
Rerun(btn, io) ==
    /\ Main(api_choice', nrel_key', google_key', location_method', lat_input',
            lon_input', address', area', accuracy', btn, io)
    /\ UNCHANGED <<call, ret>>

NoIO(now) == IO(NoResp, NoResp, NoResp, now)

SetApiChoice ==
    \E v \in ApiChoices, now \in Times :
        /\ v # api_choice
        /\ api_choice' = v
        /\ UNCHANGED <<nrel_key, google_key, location_method, lat_input, lon_input,
                       address, area, accuracy>>
        /\ Rerun("none", NoIO(now))

EnterNRELKey ==
    \E v \in KeyInputs, now \in Times :
        /\ v # nrel_key
        /\ nrel_key' = v
        /\ UNCHANGED <<api_choice, google_key, location_method, lat_input, lon_input,
                       address, area, accuracy>>
        /\ Rerun("none", NoIO(now))

EnterGoogleKey ==
    \E v \in KeyInputs, now \in Times :
        /\ v # google_key
        /\ google_key' = v
        /\ UNCHANGED <<api_choice, nrel_key, location_method, lat_input, lon_input,
                       address, area, accuracy>>
        /\ Rerun("none", NoIO(now))

\* a widget that a run does not render loses its value: the coordinate
\* inputs exist in "Coordinates" mode only, the address input in "Address"
\* mode only
SetLocationMethod ==
    \E v \in LocationMethods, now \in Times :
        /\ v # location_method
        /\ location_method' = v
        /\ lat_input' = DefaultLat
        /\ lon_input' = DefaultLon
        /\ address' = ""
        /\ UNCHANGED <<api_choice, nrel_key, google_key, area, accuracy>>
        /\ Rerun("none", NoIO(now))

SetCoordinates ==
    \E lat \in LatInputs, lon \in LonInputs, now \in Times :
        /\ location_method = "Coordinates"
        /\ InRange(lat, lon)
        /\ <<lat, lon>> # <<lat_input, lon_input>>
        /\ lat_input' = lat
        /\ lon_input' = lon
        /\ UNCHANGED <<api_choice, nrel_key, google_key, location_method, address,
                       area, accuracy>>
        /\ Rerun("none", NoIO(now))

EnterAddress ==
    \E v \in AddressInputs, now \in Times :
        /\ location_method = "Address"
        /\ v # address
        /\ address' = v
        /\ UNCHANGED <<api_choice, nrel_key, google_key, location_method, lat_input,
                       lon_input, area, accuracy>>
        /\ Rerun("none", NoIO(now))

SetParameters ==
    \E a \in AreaInputs, acc \in AccuracyInputs, now \in Times :
        /\ area' = a
        /\ accuracy' = acc
        /\ UNCHANGED <<api_choice, nrel_key, google_key, location_method, lat_input,
                       lon_input, address>>
        /\ Rerun("none", NoIO(now))

PressValidateNREL ==
    \E r \in IF nrel_key = "" THEN {NoResp} ELSE ProbeResponses, now \in Times :
        /\ UNCHANGED widgets
        /\ Rerun("validate_nrel", IO(r, NoResp, NoResp, now))

PressValidateGoogle ==
    \E r \in IF google_key = "" THEN {NoResp} ELSE ProbeResponses, now \in Times :
        /\ UNCHANGED widgets
        /\ Rerun("validate_google", IO(NoResp, r, NoResp, now))

PressGeocode ==
    \E r \in IF address = "" THEN {NoResp} ELSE GeoResponses, now \in Times :
        /\ location_method = "Address"
        /\ UNCHANGED widgets
        /\ Rerun("geocode", IO(NoResp, NoResp, r, now))

\* the providers a press of Fetch calls, by the key checks of main()
Called(choice, nkey, gkey) ==
    CASE choice = "NREL Solar" -> IF nkey = "" THEN {} ELSE {"NREL"}
      [] choice = "Google Solar" -> IF gkey = "" THEN {} ELSE {"Google"}
      [] choice = "Compare Both" ->
             IF nkey = "" \/ gkey = "" THEN {} ELSE {"NREL", "Google"}

\* an answer is drawn for each provider the run calls
PressFetch ==
    \E n \in IF "NREL" \in Called(api_choice, nrel_key, google_key)
              THEN AppNRELResponses ELSE {NoResp},
       g \in IF "Google" \in Called(api_choice, nrel_key, google_key)
              THEN AppGoogleResponses ELSE {NoResp},
       now \in Times :
        /\ UNCHANGED widgets
        /\ Rerun("fetch", IO(n, g, NoResp, now))

Next ==
    \/ SetApiChoice
    \/ EnterNRELKey
    \/ EnterGoogleKey
    \/ SetLocationMethod
    \/ SetCoordinates
    \/ EnterAddress
    \/ SetParameters
    \/ PressValidateNREL
    \/ PressValidateGoogle
    \/ PressGeocode
    \/ PressFetch

Spec == Init /\ [][Next]_vars

(***************************************************************************)
(* The downloads: json.dumps of a dataset or of the report, and the        *)
(* json.loads that reads the file back.  A text is the sequence of its     *)
(* tokens; a number token carries its characters.                          *)
(***************************************************************************)
\* Python's True and False, and a float in units of 0.0001
Bool(b) == [t |-> "bool", b |-> b]

Float(n) == [t |-> "float", n |-> n]

\* one entry of 'monthly' as the dict it is
MonthValue(e) ==
    Obj([k \in DOMAIN e |->
           CASE k = "month" -> Str(e[k])
             [] k = "month_num" -> Num(e[k])
             [] OTHER -> e[k]])

\* datetime.now().isoformat() of the clock reading now
IsoFormat(now) == Str(ToString(now))

\* session_state.nrel_data or google_data as the Python value it is: None,
\* the failure dict or the dataset dict
DataValue(d) ==
    IF d = None THEN Null
    ELSE IF ~d.success
    THEN Obj(("success" :> Bool(FALSE)) @@ ("error" :> Str(d.error)))
    ELSE Obj(("success" :> Bool(TRUE))
                 @@ ("annual" :> Obj(d.annual))
                 @@ ("monthly" :> Arr([j \in 1..Len(d.monthly) |->
                                         MonthValue(d.monthly[j])]))
                 @@ ("location" :>
                        Obj([k \in DOMAIN d.location |->
                               IF k = "center" THEN d.location[k]
                               ELSE Float(d.location[k])]))
                 @@ ("metadata" :>
                        Obj([k \in DOMAIN d.metadata |->
                               CASE k = "data_layers" -> d.metadata[k]
                                 [] k = "timestamp" -> IsoFormat(d.metadata[k])
                                 [] OTHER -> Str(d.metadata[k])]))
                 @@ (IF "roof_segments" \in DOMAIN d
                     THEN "roof_segments" :> d.roof_segments
                     ELSE EmptyMap))

\* the dict "report" as the Python value it is; area is a float
ReportValue(r) ==
    Obj(("timestamp" :> IsoFormat(r.timestamp))
            @@ ("location" :> Obj(("latitude" :> Float(r.location.latitude))
                                      @@ ("longitude" :> Float(r.location.longitude))))
            @@ ("parameters" :> Obj(("area" :> Float(r.parameters.area * 10000))
                                        @@ ("accuracy" :> Str(r.parameters.accuracy))))
            @@ ("nrel_data" :> DataValue(r.nrel_data))
            @@ ("google_data" :> DataValue(r.google_data)))

DigitChars == <<"0", "1", "2", "3", "4", "5", "6", "7", "8", "9">>

\* the decimal digits of n >= 0
RECURSIVE Digits(_)
Digits(n) ==
    IF n < 10 THEN <<DigitChars[n + 1]>>
    ELSE Digits(n \div 10) \o <<DigitChars[(n % 10) + 1]>>

Abs(n) == IF n < 0 THEN -n ELSE n

SignChars(n) == IF n < 0 THEN <<"-">> ELSE <<>>

\* int.__repr__
IntText(n) == SignChars(n) \o Digits(Abs(n))

\* the digits of a fraction f of 4 places without its trailing zeros, one
\* digit at least
RECURSIVE FractionDigits(_, _)
FractionDigits(f, places) ==
    IF places > 1 /\ f % 10 = 0 THEN FractionDigits(f \div 10, places - 1)
    ELSE LET d == Digits(f)
         IN  [j \in 1..(places - Len(d)) |-> "0"] \o d

\* float.__repr__ with the fraction cut after 2 places
FloatText_TwoPlaces(n) ==
    SignChars(n) \o Digits(Abs(n) \div 10000) \o <<".">>
        \o FractionDigits((Abs(n) % 10000) \div 100, 2)

\* float.__repr__ of a float of 4 decimal places: the shortest text that
\* reads back as the same float
FloatText(n) ==
    SignChars(n) \o Digits(Abs(n) \div 10000) \o <<".">>
        \o FractionDigits(Abs(n) % 10000, 4)

Punct(c) == [k |-> "punct", c |-> c]

\* a string between quotes; its escapes are undone by the reader
StringToken(s) == [k |-> "string", s |-> s]

NumberToken(text) == [k |-> "number", text |-> text]

Literal(w) == [k |-> "literal", w |-> w]

\* the keys of a dict in the order the dict yields them
RECURSIVE KeysOf(_)
KeysOf(f) ==
    IF DOMAIN f = {} THEN <<>>
    ELSE LET k == CHOOSE x \in DOMAIN f : TRUE
         IN  <<k>> \o KeysOf([x \in DOMAIN f \ {k} |-> f[x]])

\* the texts of parts, joined by commas
RECURSIVE Join(_)
Join(parts) ==
    IF parts = <<>> THEN <<>>
    ELSE IF Len(parts) = 1 THEN parts[1]
    ELSE parts[1] \o <<Punct(",")>> \o Join(Tail(parts))

\* json.dumps(v, indent=2), white space left out
RECURSIVE Dumps(_)
Dumps(v) ==
    CASE v.t = "obj" ->
             LET keys == KeysOf(v.f)
             IN  <<Punct("{")>>
                     \o Join([j \in 1..Len(keys) |->
                                <<StringToken(keys[j]), Punct(":")>> \o Dumps(v.f[keys[j]])])
                     \o <<Punct("}")>>
      [] v.t = "arr" ->
             <<Punct("[")>> \o Join([j \in 1..Len(v.s) |-> Dumps(v.s[j])])
                 \o <<Punct("]")>>
      [] v.t = "str" -> <<StringToken(v.s)>>
      [] v.t = "num" -> <<NumberToken(IntText(v.n))>>
      [] v.t = "float" -> <<NumberToken(FloatText(v.n))>>
      [] v.t = "bool" -> <<Literal(IF v.b THEN "true" ELSE "false")>>
      [] v.t = "null" -> <<Literal("null")>>

DigitValue(c) == CHOOSE d \in 0..9 : DigitChars[d + 1] = c

\* the number the digits spell
RECURSIVE DigitsValue(_)
DigitsValue(ds) ==
    IF ds = <<>> THEN 0
    ELSE 10 * DigitsValue(SubSeq(ds, 1, Len(ds) - 1)) + DigitValue(ds[Len(ds)])

RECURSIVE Power10(_)
Power10(e) == IF e = 0 THEN 1 ELSE 10 * Power10(e - 1)

\* the reader's number: an int when the text has no ".", else a float
ParseNumber(text) ==
    LET negative == text[1] = "-"
        body == IF negative THEN Tail(text) ELSE text
        dots == {j \in 1..Len(body) : body[j] = "."}
        sign == IF negative THEN -1 ELSE 1
    IN  IF dots = {} THEN Num(sign * DigitsValue(body))
        ELSE LET dot == CHOOSE j \in dots : TRUE
                 whole == SubSeq(body, 1, dot - 1)
                 fraction == SubSeq(body, dot + 1, Len(body))
             IN  Float(sign * (DigitsValue(whole) * 10000
                                  + DigitsValue(fraction) * Power10(4 - Len(fraction))))

Parsed(v, next) == [ok |-> TRUE, v |-> v, next |-> next]

ParseError == [ok |-> FALSE]

\* the reader: the value that starts at token i, and the index after it
RECURSIVE ParseValue(_, _), ParseMembers(_, _, _), ParseElements(_, _, _),
          MembersAfter(_, _, _, _), ElementsAfter(_, _, _)
ParseValue(toks, i) ==
    IF i > Len(toks) THEN ParseError
    ELSE CASE toks[i].k = "number" -> Parsed(ParseNumber(toks[i].text), i + 1)
           [] toks[i].k = "string" -> Parsed(Str(toks[i].s), i + 1)
           [] toks[i].k = "literal" ->
                  Parsed(CASE toks[i].w = "true" -> Bool(TRUE)
                           [] toks[i].w = "false" -> Bool(FALSE)
                           [] OTHER -> Null, i + 1)
           [] toks[i].k = "punct" ->
                  IF toks[i].c = "{"
                  THEN IF i < Len(toks) /\ toks[i + 1] = Punct("}")
                       THEN Parsed(Obj(EmptyMap), i + 2)
                       ELSE ParseMembers(toks, i + 1, EmptyMap)
                  ELSE IF toks[i].c = "["
                  THEN IF i < Len(toks) /\ toks[i + 1] = Punct("]")
                       THEN Parsed(Arr(<<>>), i + 2)
                       ELSE ParseElements(toks, i + 1, <<>>)
                  ELSE ParseError

\* the members of an object from the key at token i; a key repeated keeps
\* its last value
ParseMembers(toks, i, acc) ==
    IF i + 1 > Len(toks) \/ toks[i].k # "string" \/ toks[i + 1] # Punct(":")
    THEN ParseError
    ELSE MembersAfter(toks, toks[i].s, ParseValue(toks, i + 2), acc)

MembersAfter(toks, key, r, acc) ==
    IF ~r.ok \/ r.next > Len(toks) THEN ParseError
    ELSE IF toks[r.next] = Punct(",")
    THEN ParseMembers(toks, r.next + 1, (key :> r.v) @@ acc)
    ELSE IF toks[r.next] = Punct("}")
    THEN Parsed(Obj((key :> r.v) @@ acc), r.next + 1)
    ELSE ParseError

ParseElements(toks, i, acc) == ElementsAfter(toks, ParseValue(toks, i), acc)

ElementsAfter(toks, r, acc) ==
    IF ~r.ok \/ r.next > Len(toks) THEN ParseError
    ELSE IF toks[r.next] = Punct(",")
    THEN ParseElements(toks, r.next + 1, Append(acc, r.v))
    ELSE IF toks[r.next] = Punct("]")
    THEN Parsed(Arr(Append(acc, r.v)), r.next + 1)
    ELSE ParseError

\* json.loads of a text: the value, when the text is one value and no more
LoadsResult(toks, r) ==
    IF r.ok /\ r.next = Len(toks) + 1 THEN Ok(r.v)
    ELSE Raise("JSONDecodeError", "Expecting value")

Loads(toks) == LoadsResult(toks, ParseValue(toks, 1))

(***************************************************************************)
(* Properties of the handlers and the calculator, under SpecApi.           *)
(***************************************************************************)
FetchDone == call.fn \in {"nrel_fetch", "google_fetch"} /\ ret # Pending

ValidateDone == call.fn \in {"nrel_validate", "google_validate"} /\ ret # Pending

\* a provider behaviour that is a failure: the request raised, the status
\* is not 200, or the body cannot be parsed
FailureResponse(resp) ==
    \/ resp.kind = "exception"
    \/ resp.status # 200
    \/ ~resp.body.parsable

\* C1: fetch_solar_data of either handler returns a result and never
\* raises, and a failure of the provider (exception of the request, status
\* other than 200, unparsable body) is returned with success = False and an
\* error, never as success = True.
C1_FetchReturnsResult ==
    FetchDone =>
        /\ ~ret.raised
        /\ ret.value.success \in BOOLEAN
        /\ FailureResponse(call.resp) =>
               /\ ret.value.success = FALSE
               /\ "error" \in DOMAIN ret.value

C1_Witness ==
    /\ FetchDone
    /\ call.resp.kind = "http"
    /\ call.resp.status = 200
    /\ ~call.resp.body.parsable
    /\ ~ret.raised
    /\ ret.value.success = FALSE

\* C2: validate_api_key of either handler returns a boolean and never
\* raises; when the probe request fails in the network it returns False.
C2_ValidateReturnsBoolean ==
    ValidateDone =>
        /\ ~ret.raised
        /\ ret.value \in BOOLEAN
        /\ call.resp.kind = "exception" => ret.value = FALSE

C2_Witness ==
    /\ ValidateDone
    /\ call.fn = "google_validate"
    /\ call.resp.kind = "exception"
    /\ call.resp.exc = "Timeout"
    /\ ret = Ok(FALSE)

\* the annual totals the schema requires of a parsed body
HasAnnualTotals(fn, data) ==
    IF fn = "nrel_fetch"
    THEN /\ IsDict(data)
         /\ "outputs" \in DOMAIN data.f
         /\ IsDict(data.f["outputs"])
         /\ \A k \in {"avg_ghi", "avg_dni", "avg_dhi"} :
               /\ k \in DOMAIN data.f["outputs"].f
               /\ IsDict(data.f["outputs"].f[k])
               /\ "annual" \in DOMAIN data.f["outputs"].f[k].f
               /\ IsNum(data.f["outputs"].f[k].f["annual"])
    ELSE /\ IsDict(data)
         /\ "solarPotential" \in DOMAIN data.f
         /\ IsDict(data.f["solarPotential"])
         /\ \A k \in {"maxArrayPanelsCount", "maxArrayAreaMeters2",
                      "maxSunshineHoursPerYear"} :
               /\ k \in DOMAIN data.f["solarPotential"].f
               /\ IsNum(data.f["solarPotential"].f[k])

\* the error kind of the taxonomy a provider behaviour falls under
ErrorKind(fn, resp) ==
    CASE resp.kind = "exception" -> "TransportError"
      [] resp.kind = "http" /\ resp.status \in {401, 403} -> "AuthError"
      [] resp.kind = "http" /\ resp.status = 429 -> "RateLimited"
      [] resp.kind = "http" /\ resp.status = 404 -> "NoDataForLocation"
      [] resp.kind = "http" /\ resp.status = 200
            /\ (~resp.body.parsable \/ ~HasAnnualTotals(fn, resp.body.data))
            -> "MalformedResponse"
      [] OTHER -> "none"

FetchOutcome(c, resp) ==
    IF c.fn = "nrel_fetch"
    THEN NREL_fetch_solar_data(c.lat, c.lon, c.accuracy, resp, c.now)
    ELSE Google_fetch_solar_data(c.lat, c.lon, c.accuracy, resp, c.now)

ResponsesOf(fn) == IF fn = "nrel_fetch" THEN NRELResponses ELSE GoogleResponses

\* C4: each error kind (auth failure, throttling, no data, transport
\* failure, schema-invalid 200 body) yields an error outcome, and that
\* outcome differs from the outcome of every behaviour of another kind.
C4_ErrorKindsDistinct ==
    (FetchDone /\ ErrorKind(call.fn, call.resp) # "none") =>
        /\ ~ret.raised
        /\ ret.value.success = FALSE
        /\ \A r \in ResponsesOf(call.fn) :
               ErrorKind(call.fn, r) \notin {"none", ErrorKind(call.fn, call.resp)}
                   => FetchOutcome(call, r) # ret

\* C5: calculate_energy_production and estimate_system_size fail with
\* InvalidInput when area <= 0 or irradiance < 0, and return no value.
C5_CalculatorRejectsInvalid ==
    (call.fn \in {"energy", "system_size"} /\ ret # Pending
        /\ (call.area <= 0 \/ (call.fn = "energy" /\ call.irradiance < 0))) =>
        /\ ret.raised
        /\ ret.exc = "InvalidInput"

\* C6: a 200 payload that lacks a required annual total yields a failure,
\* never a success = True dataset.
C6_MissingAnnualIsFailure ==
    (FetchDone /\ call.resp.kind = "http" /\ call.resp.status = 200
        /\ call.resp.body.parsable
        /\ ~HasAnnualTotals(call.fn, call.resp.body.data)) =>
        /\ ~ret.raised
        /\ ret.value.success = FALSE

FetchSucceeded == FetchDone /\ ~ret.raised /\ ret.value.success

\* the payload's monthlyFlux of a Google call whose body parsed as a dict
\* with a solarPotential dict
PayloadFlux(c) ==
    Get(Get(c.resp.body.data, "solarPotential", EmptyDict), "monthlyFlux", Absent)

\* C7: the monthly list of every successful result has month_num values in
\* 1..12, strictly ascending; NREL results, and Google results whose
\* payload carries 12 months or more, have exactly the entries 1, 2, ..., 12.
C7_MonthlyAscending ==
    FetchSucceeded =>
        LET m == ret.value.monthly
        IN  /\ \A j \in 1..Len(m) : m[j].month_num \in 1..12
            /\ \A j \in 1..(Len(m) - 1) : m[j].month_num < m[j + 1].month_num
            /\ Len(m) <= 12
            /\ (call.fn = "nrel_fetch"
                  \/ (PayloadFlux(call) # Absent /\ Len(PayloadFlux(call).s) >= 12))
                 => /\ Len(m) = 12
                    /\ \A j \in 1..12 : m[j].month_num = j

C7_Witness ==
    /\ FetchSucceeded
    /\ call.fn = "google_fetch"
    /\ PayloadFlux(call) # Absent
    /\ Len(PayloadFlux(call).s) = 13
    /\ Len(ret.value.monthly) = 12
    /\ ret.value.monthly[12].month_num = 12

\* C8: a Google payload whose monthlyFlux array has k < 12 elements gives
\* exactly k monthly entries, for months 1..k in the array's order and with
\* the array's values, and an annual flux that is the sum of those k values.
C8_GoogleTrailingMonthsAbsent ==
    (FetchSucceeded /\ call.fn = "google_fetch" /\ PayloadFlux(call) # Absent
        /\ Len(PayloadFlux(call).s) < 12) =>
        LET flux == PayloadFlux(call).s
            k == Len(flux)
            m == ret.value.monthly
        IN  /\ Len(m) = k
            /\ \A j \in 1..k :
                  /\ m[j].month_num = j
                  /\ m[j].month = GoogleMonths[j]
                  /\ m[j].flux = Get(flux[j], "flux", Num(0))
            /\ ret.value.annual.flux
                  = Num(SumSeq([j \in 1..k |-> Get(flux[j], "flux", Num(0)).n]))

C8_Witness ==
    /\ FetchSucceeded
    /\ call.fn = "google_fetch"
    /\ PayloadFlux(call) # Absent
    /\ Len(PayloadFlux(call).s) = 5
    /\ Len(ret.value.monthly) = 5
    /\ ret.value.annual.flux.n > 0

\* C10: a coordinate in range is accepted and the request made; a
\* coordinate out of range is rejected with InvalidInput and no request
\* reaches the provider.
C10_OutOfRangeRejected ==
    FetchDone =>
        IF InRange(call.lat, call.lon)
        THEN Len(net) = 1 /\ ~ret.raised
        ELSE /\ net = <<>>
             /\ ret.raised
             /\ ret.exc = "InvalidInput"

(***************************************************************************)
(* Properties of the script runs, under Spec.                              *)
(***************************************************************************)
\* the last run reached "Display results": it did not return at a key check
ViewRendered == ~(button = "fetch" /\ Called(api_choice, nrel_key, google_key) = {})

ShowsMetrics(api_type) == \E e \in ui : e.w = "metrics" /\ e.api = api_type

\* C3: in "Compare Both" with both keys, a press of Fetch requests NREL and
\* then Google whatever NREL answered, and stores both results; and the
\* comparison view shows the metrics of a provider whose dataset succeeded
\* when the other provider's result is a failure or absent.
C3_CompareIndependent ==
    /\ (button = "fetch" /\ api_choice = "Compare Both" /\ nrel_key # ""
          /\ google_key # "") =>
           /\ Len(net) = 2
           /\ net[1].req = NRELRequest(nrel_key, latitude, longitude, accuracy)
           /\ net[2].req = GoogleRequest(google_key, latitude, longitude, accuracy)
           /\ \E now \in Times :
                 /\ Ok(nrel_data) = NREL_fetch_solar_data(latitude, longitude, accuracy,
                                                          net[1].resp, now)
                 /\ Ok(google_data) = Google_fetch_solar_data(latitude, longitude,
                                                              accuracy, net[2].resp, now)
    /\ (api_choice = "Compare Both" /\ ViewRendered) =>
           /\ (Succeeded(nrel_data) /\ ~Succeeded(google_data)) => ShowsMetrics("NREL")
           /\ (Succeeded(google_data) /\ ~Succeeded(nrel_data)) => ShowsMetrics("Google")

C3_Witness ==
    /\ button = "fetch"
    /\ api_choice = "Compare Both"
    /\ Len(net) = 2
    /\ net[1].resp.kind = "exception"
    /\ nrel_data # None
    /\ ~nrel_data.success
    /\ Succeeded(google_data)
    /\ ShowsMetrics("Google")
    /\ ~ShowsMetrics("NREL")

\* the rows of a dataset's monthly list that are for month m
RowsOf(data, m) == {j \in 1..Len(data.monthly) : data.monthly[j].month_num = m}

\* the points of a trace that lie on the category of month m
PointsOf(trace, m) == {j \in 1..Len(trace.x) : trace.x[j] = GoogleMonths[m]}

\* C9: the comparison of two datasets has, for every month present in at
\* least one of them, exactly one aligned entry: the value of each side that
\* has the month, and nothing for a side that lacks it.
C9_ComparisonAligned ==
    (api_choice = "Compare Both" /\ ViewRendered /\ Succeeded(nrel_data)
        /\ Succeeded(google_data)) =>
        LET fig == create_comparison_chart(nrel_data, google_data)
        IN  /\ ~fig.raised
            /\ [w |-> "chart", kind |-> "comparison"] \in ui
            /\ Len(fig.value) = 2
            /\ \A m \in 1..12 :
                  /\ Cardinality(RowsOf(nrel_data, m)) <= 1
                  /\ Cardinality(PointsOf(fig.value[1], m))
                         = Cardinality(RowsOf(nrel_data, m))
                  /\ \A j \in RowsOf(nrel_data, m), k \in PointsOf(fig.value[1], m) :
                         fig.value[1].y[k] = nrel_data.monthly[j].ghi
                  /\ Cardinality(RowsOf(google_data, m)) <= 1
                  /\ Cardinality(PointsOf(fig.value[2], m))
                         = Cardinality(RowsOf(google_data, m))
                  /\ \A j \in RowsOf(google_data, m), k \in PointsOf(fig.value[2], m) :
                         fig.value[2].y[k] = [num |-> google_data.monthly[j].flux, den |-> 30]

(***************************************************************************)
(* The calculator's formula, under SpecApi.                                *)
(***************************************************************************)
EnergyDone == call.fn = "energy" /\ ret # Pending

\* C11: calculate_energy_production returns irradiance * area * efficiency,
\* with efficiency 0.20 when the argument is left out; for fixed irradiance
\* and efficiency a larger area never gives a smaller result; and with
\* irradiance 0 the result is 0 for every area.
C11_EnergyFormula ==
    EnergyDone =>
        LET eff == IF call.efficiency.given THEN call.efficiency.value ELSE 20
        IN  /\ ret = Ok(call.irradiance * call.area * eff)
            /\ call.irradiance = 0 => ret.value = 0
            /\ \A a2 \in Areas :
                   a2 > call.area =>
                       /\ ~calculate_energy_production(call.irradiance, a2, eff).raised
                       /\ calculate_energy_production(call.irradiance, a2, eff).value
                              >= ret.value

(***************************************************************************)
(* The downloads read back: a session that holds fetched datasets, the     *)
(* three download buttons of "Download results", and the reader of the     *)
(* downloaded text.                                                        *)
(***************************************************************************)
\* the coordinate and accuracy of the fetches that filled the session
JsonFetches ==
    {<<DefaultLat, DefaultLon, "medium">>, <<-5000, 5, "high">>, <<LatMin, LonMax, "low">>}

\* what NRELApiHandler.fetch_solar_data may have left in session_state
NRELResults(fetches, responses) ==
    {None} \cup
        {NREL_fetch_solar_data(c[1], c[2], c[3], r, t).value :
            c \in fetches, r \in responses, t \in Times}

\* what GoogleSolarApiHandler.fetch_solar_data may have left in session_state
GoogleResults(fetches, responses) ==
    {None} \cup
        {Google_fetch_solar_data(c[1], c[2], c[3], r, t).value :
            c \in fetches, r \in responses, t \in Times}

\* the datasets of a session: every result of one provider beside a few of
\* the other
SessionData ==
    (NRELResults(JsonFetches, NRELResponses)
         \X GoogleResults({<<DefaultLat, DefaultLon, "medium">>}, AppGoogleResponses))
        \cup (NRELResults({<<DefaultLat, DefaultLon, "medium">>}, AppNRELResponses)
                  \X GoogleResults(JsonFetches, GoogleResponses))

InitJson ==
    /\ api_choice = "Compare Both"
    /\ nrel_key = "key-1"
    /\ google_key = "key-1"
    /\ location_method = "Coordinates"
    /\ lat_input = -5000
    /\ lon_input = 5
    /\ latitude = -5000
    /\ longitude = 5
    /\ address = ""
    /\ area = 50
    /\ accuracy = "medium"
    /\ \E d \in SessionData :
           /\ nrel_data = d[1]
           /\ google_data = d[2]
    /\ api_validated = [nrel |-> FALSE, google |-> FALSE]
    /\ button = "none"
    /\ net = <<>>
    /\ ui = {}
    /\ crashed = NoExc
    /\ call = NoCall
    /\ ret = Pending

\* "Download NREL Data": nrel_json, and what its reader gets
DownloadNREL ==
    /\ ret = Pending
    /\ Succeeded(nrel_data)
    /\ call' = [fn |-> "download_nrel"]
    /\ ret' = Loads(Dumps(DataValue(nrel_data)))
    /\ UNCHANGED <<widgets, session, lastrun>>

\* "Download Google Data": google_json, and what its reader gets
DownloadGoogle ==
    /\ ret = Pending
    /\ Succeeded(google_data)
    /\ call' = [fn |-> "download_google"]
    /\ ret' = Loads(Dumps(DataValue(google_data)))
    /\ UNCHANGED <<widgets, session, lastrun>>

\* "Download Full Report": report_json, and what its reader gets
DownloadReport ==
    \E now \in Times :
        /\ ret = Pending
        /\ Succeeded(nrel_data) \/ Succeeded(google_data)
        /\ call' = [fn |-> "download_report", now |-> now]
        /\ ret' = Loads(Dumps(ReportValue(Report(nrel_data, google_data, area, latitude,
                                                 longitude, accuracy, now))))
        /\ UNCHANGED <<widgets, session, lastrun>>

NextJson ==
    \/ DownloadNREL
    \/ DownloadGoogle
    \/ DownloadReport

SpecJson == InitJson /\ [][NextJson]_vars

\* C12: the JSON text of a dataset a successful fetch returns, read back,
\* is a value equal to the dataset in every field, extras included; and so
\* is the text of the report that bundles the location, the parameters and
\* both datasets.
C12_JsonRoundTrip ==
    ret # Pending =>
        /\ call.fn = "download_nrel" => ret = Ok(DataValue(nrel_data))
        /\ call.fn = "download_google" => ret = Ok(DataValue(google_data))
        /\ call.fn = "download_report" =>
               ret = Ok(ReportValue(Report(nrel_data, google_data, area, latitude,
                                           longitude, accuracy, call.now)))

C12_Witness ==
    /\ ret # Pending
    /\ call.fn = "download_report"
    /\ Succeeded(nrel_data)
    /\ Succeeded(google_data)
    /\ Len(google_data.monthly) = 12
    /\ google_data.roof_segments # EmptyList
    /\ google_data.metadata.data_layers # EmptyList
    /\ google_data.location.center # EmptyDict
    /\ google_data.location.lat = LatMin
    /\ ~ret.raised
    /\ ret.value.f["location"].f["latitude"] = Float(-5000)
    /\ ret.value.f["location"].f["longitude"] = Float(5)
    /\ ret.value.f["google_data"].f["location"].f["lat"] = Float(LatMin)
    /\ ret.value.f["google_data"].f["roof_segments"] = google_data.roof_segments
    /\ ret.value.f["nrel_data"].f["success"] = Bool(TRUE)

(***************************************************************************)
(* The requests of a fetch, under SpecApi.                                 *)
(***************************************************************************)
\* C13: a call of fetch_solar_data makes exactly one request, the fetch
\* request of its provider, whatever the provider answers; a throttling
\* status or a timeout is not followed by a second request.
C13_OneRequestPerFetch ==
    FetchDone =>
        /\ Len(net) = 1
        /\ net[1].resp = call.resp
        /\ net[1].req = IF call.fn = "nrel_fetch"
                        THEN NRELRequest(call.api_key, call.lat, call.lon, call.accuracy)
                        ELSE GoogleRequest(call.api_key, call.lat, call.lon,
                                           call.accuracy)

C13_Witness ==
    /\ FetchDone
    /\ call.fn = "nrel_fetch"
    /\ call.resp.kind = "http"
    /\ call.resp.status = 429
    /\ Len(net) = 1
    /\ ~ret.raised
    /\ ~ret.value.success

(***************************************************************************)
(* Key validation in the script runs, under Spec.                          *)
(***************************************************************************)
\* the last run pressed the Validate button of provider p and the probe was
\* answered with an auth-failure status
ProbeRefused(p) ==
    /\ button = "validate_" \o p
    /\ Len(net) = 1
    /\ net[1].resp.kind = "http"
    /\ net[1].resp.status \in {401, 403}

Geocoded == button = "geocode" /\ Msg("geocode_found") \in ui

\* C15: when a run has geocoded the address, a press of Fetch in the next
\* run, with the keys of the selected mode entered, requests the providers
\* for the geocoded latitude and longitude.
C15_FetchUsesGeocoded ==
    [][(Geocoded /\ button' = "fetch"
           /\ Called(api_choice', nrel_key', google_key') # {}) =>
           /\ Len(net') >= 1
           /\ \A i \in 1..Len(net') :
                  /\ net'[i].req.lat = latitude
                  /\ net'[i].req.lon = longitude]_vars

(***************************************************************************)
(* Fetch with a key missing, under Spec.                                   *)
(***************************************************************************)
\* C16: a press of Fetch while a key the selected mode needs is empty makes
\* no request and leaves session_state.nrel_data and google_data as they
\* were; in "Compare Both" with one key only, neither provider is fetched.
C16_MissingKeyNoFetch ==
    [][(button' = "fetch" /\ Called(api_choice', nrel_key', google_key') = {}) =>
           /\ net' = <<>>
           /\ nrel_data' = nrel_data
           /\ google_data' = google_data]_vars

C16_Witness ==
    /\ button = "fetch"
    /\ api_choice = "Compare Both"
    /\ nrel_key # ""
    /\ google_key = ""
    /\ net = <<>>
    /\ Msg("need_both_keys") \in ui
    /\ Succeeded(nrel_data)
    /\ google_data = None

(***************************************************************************)
(* The datasets shown together, under Spec.                                *)
(***************************************************************************)
\* where and how a dataset was fetched
FetchedFor(data) ==
    [lat |-> data.location.lat, lon |-> data.location.lon,
     accuracy |-> data.metadata.accuracy]

\* C17: when the "Compare Both" view shows the comparison chart, the two
\* datasets of session_state were fetched for the same coordinate and
\* accuracy; and when the report download is offered, the location of the
\* report is the location of every dataset it includes.
C17_ComparedSameLocation ==
    /\ [w |-> "chart", kind |-> "comparison"] \in ui =>
           FetchedFor(nrel_data) = FetchedFor(google_data)
    /\ [w |-> "download", file |-> "report"] \in ui =>
           /\ Succeeded(nrel_data) =>
                  /\ nrel_data.location.lat = latitude
                  /\ nrel_data.location.lon = longitude
           /\ Succeeded(google_data) =>
                  /\ google_data.location.lat = latitude
                  /\ google_data.location.lon = longitude

====
